---- MODULE Spec2Model ----
(***************************************************************************)
(* PNG metadata codec of st-fawn-whispers: injectTextChunk,                *)
(* extractTextChunk, findChunkPos and crc32 (src/index.js:1567-1625, with  *)
(* copies at src/index.js:227-285 and src/unnamed/part_000:220-323).       *)
(*                                                                         *)
(* A byte buffer (Uint8Array) is a sequence of naturals in 0..255, indexed *)
(* from 1 (JavaScript index i is TLA+ index i + 1).  A JavaScript string   *)
(* is the sequence of its UTF-16 code units.  A call either returns or     *)
(* throws; its outcome is a record [kind, val].                            *)
(***************************************************************************)
EXTENDS Integers, Sequences, FiniteSets, TLC

(***************************************************************************)
(* Bit operations on naturals.                                             *)
(***************************************************************************)
RECURSIVE xorBits(_, _)
xorBits(a, b) ==
    IF a = 0 THEN b
    ELSE IF b = 0 THEN a
    ELSE (((a % 2) + (b % 2)) % 2) + (2 * xorBits(a \div 2, b \div 2))

\* a ^ b for bytes, tabulated once.
xorByte == [a \in 0..255 |-> [b \in 0..255 |-> xorBits(a, b)]]

\* a ^ b for 16-bit values.
Xor(a, b) ==
    (xorByte[a \div 256][b \div 256] * 256) + xorByte[a % 256][b % 256]

\* subarray(begin, end) of a typed array: negative indices count from the end,
\* both are clamped to [0, length], and an empty range gives an empty view.
RelIndex(n, len) ==
    IF n < 0 THEN (IF len + n < 0 THEN 0 ELSE len + n)
    ELSE (IF n > len THEN len ELSE n)

subarray(buf, begin, end) ==
    LET from == RelIndex(begin, Len(buf))
        to == RelIndex(end, Len(buf))
    IN  IF to <= from THEN <<>> ELSE SubSeq(buf, from + 1, to)

\* subarray(begin) with the end left out: up to the end of the buffer.
subarrayFrom(buf, begin) == subarray(buf, begin, Len(buf))

(***************************************************************************)
(* DataView.setUint32 / getUint32, big-endian.  A value read is exact      *)
(* below 2^30 and is Huge (2^30) from there on: every buffer of the model  *)
(* is far shorter than 2^30 bytes, and a declared length is only ever      *)
(* added to an offset and compared with, or clamped to, a buffer length.   *)
(***************************************************************************)
Huge == 1073741824

\* The four bytes of n written little-endian.
setUint32_littleEndian(n) ==
    << n % 256, (n \div 256) % 256, (n \div 65536) % 256, (n \div 16777216) % 256 >>

setUint32(n) ==
    << (n \div 16777216) % 256, (n \div 65536) % 256, (n \div 256) % 256, n % 256 >>

\* A read of the four bytes as a signed integer (getInt32): negative from
\* 0x80000000 on.
getUint32_signed(buf, o) ==
    IF buf[o + 1] >= 128
      THEN (((buf[o + 1] - 256) * 16777216) + (buf[o + 2] * 65536)) + (buf[o + 3] * 256)
               + buf[o + 4]
    ELSE IF buf[o + 1] >= 64 THEN Huge
    ELSE (buf[o + 1] * 16777216) + (buf[o + 2] * 65536) + (buf[o + 3] * 256) + buf[o + 4]

getUint32(buf, o) ==
    IF buf[o + 1] >= 64 THEN Huge
    ELSE (buf[o + 1] * 16777216) + (buf[o + 2] * 65536) + (buf[o + 3] * 256) + buf[o + 4]

(***************************************************************************)
(* crc32.  The 32-bit register c is the pair <<high 16 bits, low 16 bits>>.*)
(***************************************************************************)
PolyHi == 60856
PolyLo == 33568

\* The inner loop, j steps of c = (c >>> 1) ^ (c & 1 ? 0xEDB88320 : 0).
RECURSIVE crcBits(_, _)
crcBits(c, j) ==
    IF j = 0 THEN c
    ELSE LET hi == c[1] \div 2
             lo == (c[2] \div 2) + ((c[1] % 2) * 32768)
         IN  IF c[2] % 2 = 1
               THEN crcBits(<< Xor(hi, PolyHi), Xor(lo, PolyLo) >>, j - 1)
               ELSE crcBits(<< hi, lo >>, j - 1)

\* One pass of the outer loop on register a[1..2] and byte a[3]: c ^= buf[i],
\* then the 8 inner steps.
U16 == 0..65535
crcByte[a \in U16 \X U16 \X (0..255)] == crcBits(<< a[1], Xor(a[2], a[3]) >>, 8)

\* The register after the first n bytes of buf, from c = 0xFFFFFFFF.
RECURSIVE crcRegister(_, _)
crcRegister(buf, n) ==
    IF n = 0 THEN << 65535, 65535 >>
    ELSE crcByte[crcRegister(buf, n - 1) \o << buf[n] >>]

\* A crc32 that leaves out the final XOR with 0xFFFFFFFF.
crc32_noFinalXor(buf) ==
    LET c == crcRegister(buf, Len(buf))
    IN  << c[1] \div 256, c[1] % 256, c[2] \div 256, c[2] % 256 >>

\* The result of ^ is a signed 32-bit integer: its high half is negative when
\* bit 31 is set.  >>> 0 makes it unsigned again.
ToInt32(c) == << IF c[1] >= 32768 THEN c[1] - 65536 ELSE c[1], c[2] >>
ToUint32(c) == << IF c[1] < 0 THEN c[1] + 65536 ELSE c[1], c[2] >>

\* A crc32 that returns c ^ 0xFFFFFFFF without the >>> 0.
crc32Number_signed(buf) ==
    LET c == crcRegister(buf, Len(buf))
    IN  ToInt32(<< Xor(c[1], 65535), Xor(c[2], 65535) >>)

\* The number crc32 returns, (c ^ 0xFFFFFFFF) >>> 0, as <<high half, low
\* half>>: its value is 65536 * high + low.
crc32Number(buf) ==
    LET c == crcRegister(buf, Len(buf))
    IN  ToUint32(ToInt32(<< Xor(c[1], 65535), Xor(c[2], 65535) >>))

\* (c ^ 0xFFFFFFFF) >>> 0, as its four big-endian bytes (what setUint32
\* writes of it).
crc32(buf) ==
    LET n == crc32Number(buf)
    IN  << n[1] \div 256, n[1] % 256, n[2] \div 256, n[2] % 256 >>

(***************************************************************************)
(* TextEncoder.encode: a string's code units to UTF-8.  A surrogate pair   *)
(* is one code point; a lone surrogate is encoded as U+FFFD.               *)
(***************************************************************************)
IsHigh(u) == u >= 55296 /\ u <= 56319
IsLow(u) == u >= 56320 /\ u <= 57343

utf8Bytes(cp) ==
    IF cp < 128 THEN << cp >>
    ELSE IF cp < 2048 THEN << 192 + (cp \div 64), 128 + (cp % 64) >>
    ELSE IF cp < 65536
      THEN << 224 + (cp \div 4096), 128 + ((cp \div 64) % 64), 128 + (cp % 64) >>
    ELSE << 240 + (cp \div 262144), 128 + ((cp \div 4096) % 64),
            128 + ((cp \div 64) % 64), 128 + (cp % 64) >>

RECURSIVE encode(_)
encode(s) ==
    IF s = <<>> THEN <<>>
    ELSE IF IsHigh(s[1]) /\ Len(s) >= 2 /\ IsLow(s[2])
      THEN utf8Bytes(65536 + ((s[1] - 55296) * 1024) + (s[2] - 56320))
           \o encode(SubSeq(s, 3, Len(s)))
    ELSE IF IsHigh(s[1]) \/ IsLow(s[1])
      THEN utf8Bytes(65533) \o encode(Tail(s))
    ELSE utf8Bytes(s[1]) \o encode(Tail(s))

(***************************************************************************)
(* TextDecoder.decode (new TextDecoder(): utf-8, fatal false, ignoreBOM    *)
(* false): a leading EF BB BF is dropped, every maximal ill-formed         *)
(* subsequence becomes U+FFFD, a code point above U+FFFF becomes a         *)
(* surrogate pair.  st = <<bytes needed, code point, lower, upper>>.       *)
(***************************************************************************)
codeUnits(cp) ==
    IF cp < 65536 THEN << cp >>
    ELSE << 55296 + ((cp - 65536) \div 1024), 56320 + ((cp - 65536) % 1024) >>

RECURSIVE utf8Decode(_, _, _)
utf8Decode(buf, i, st) ==
    IF i > Len(buf) THEN (IF st[1] = 0 THEN <<>> ELSE << 65533 >>)
    ELSE LET b == buf[i] IN
      IF st[1] = 0 THEN
        IF b < 128 THEN << b >> \o utf8Decode(buf, i + 1, st)
        ELSE IF b >= 194 /\ b <= 223
          THEN utf8Decode(buf, i + 1, << 1, b % 32, 128, 191 >>)
        ELSE IF b >= 224 /\ b <= 239
          THEN utf8Decode(buf, i + 1,
                 << 2, b % 16, IF b = 224 THEN 160 ELSE 128, IF b = 237 THEN 159 ELSE 191 >>)
        ELSE IF b >= 240 /\ b <= 244
          THEN utf8Decode(buf, i + 1,
                 << 3, b % 8, IF b = 240 THEN 144 ELSE 128, IF b = 244 THEN 143 ELSE 191 >>)
        ELSE << 65533 >> \o utf8Decode(buf, i + 1, st)
      ELSE IF b < st[3] \/ b > st[4]
        THEN << 65533 >> \o utf8Decode(buf, i, << 0, 0, 128, 191 >>)
      ELSE LET cp == (st[2] * 64) + (b % 64) IN
        IF st[1] = 1 THEN codeUnits(cp) \o utf8Decode(buf, i + 1, << 0, 0, 128, 191 >>)
        ELSE utf8Decode(buf, i + 1, << st[1] - 1, cp, 128, 191 >>)

HasBOM(buf) == Len(buf) >= 3 /\ buf[1] = 239 /\ buf[2] = 187 /\ buf[3] = 191

decode_keepBOM(buf) == utf8Decode(buf, 1, << 0, 0, 128, 191 >>)

decode(buf) == utf8Decode(buf, IF HasBOM(buf) THEN 4 ELSE 1, << 0, 0, 128, 191 >>)

(***************************************************************************)
(* Typed-array helpers: new Uint8Array(n) and set(source, offset), which   *)
(* throws a RangeError unless the source fits at the offset.               *)
(***************************************************************************)
Uint8Array(n) == [i \in 1..n |-> 0]

setFits(target, source, offset) ==
    offset >= 0 /\ offset + Len(source) <= Len(target)

set(target, source, offset) ==
    [i \in 1..Len(target) |->
        IF i > offset /\ i <= offset + Len(source) THEN source[i - offset] ELSE target[i]]

(***************************************************************************)
(* Outcomes of a call.                                                     *)
(***************************************************************************)
Number(n) == [kind |-> "number", val |-> n]
Bytes(b) == [kind |-> "bytes", val |-> b]
String(s) == [kind |-> "string", val |-> s]
Null == [kind |-> "null", val |-> <<>>]
RangeError == [kind |-> "throw", val |-> <<>>]
RangeErrorAt(o) == [kind |-> "throw", val |-> o]

tEXt == << 116, 69, 88, 116 >>
IEND == << 73, 69, 78, 68 >>

(***************************************************************************)
(* findChunkPos(png, name): the offset of the first chunk, walking from    *)
(* offset 8 by declared lengths, whose type decodes to name, or -1.        *)
(* getUint32 throws when fewer than 4 bytes are left at the offset.        *)
(***************************************************************************)
RECURSIVE findChunkPosFrom(_, _, _)
findChunkPosFrom(png, name, o) ==
    IF ~(o < Len(png)) THEN Number(-1)
    ELSE IF Len(png) - o < 4 THEN RangeErrorAt(o)
    ELSE LET l == getUint32(png, o) IN
         IF decode(subarray(png, o + 4, o + 8)) = name THEN Number(o)
         ELSE findChunkPosFrom(png, name, o + 12 + l)

\* A scan that looks at the signature first: not found unless the buffer
\* begins with the PNG signature's first byte.
findChunkPos_checksSignature(png, name) ==
    IF Len(png) >= 1 /\ png[1] # 137 THEN Number(-1)
    ELSE findChunkPosFrom(png, name, 8)

findChunkPos(png, name) == findChunkPosFrom(png, name, 8)

(***************************************************************************)
(* The inputs of the model.  Strings are written as their code units.      *)
(***************************************************************************)
whispers == << 119, 104, 105, 115, 112, 101, 114, 115 >>
other == << 111, 116, 104, 101, 114 >>
empty == << >>
\* "\uFEFFk": a keyword that begins with a byte order mark.
bomKey == << 65279, 107 >>

\* {"name":"X"}
nameX == << 123, 34, 110, 97, 109, 101, 34, 58, 34, 88, 34, 125 >>
\* "\uFEFFé": a text that begins with a byte order mark.
bomText == << 65279, 233 >>
\* "\uD800": a lone surrogate.
loneSurrogate == << 55296 >>
\* "é\u0000😀": a two-byte code point, a NUL and a four-byte code point.
wideText == << 233, 0, 55357, 56832 >>

Keywords == { whispers, other, empty }

\* The (keyword, text) pairs a caller embeds.
EmbedInputs ==
    { << whispers, nameX >>, << other, empty >>, << other, wideText >>,
      << empty, IEND >>, << bomKey, empty >>, << other, bomText >>,
      << whispers, loneSurrogate >> }

ChunkNames == { IEND, tEXt }

(***************************************************************************)
(* injectTextChunk, in its three steps: the chunk, the position, the       *)
(* splice.                                                                 *)
(***************************************************************************)
\* A chunkData that leaves out the zero byte between keyword and text.
chunkDataOf_noSeparator(keyword, text) == encode(keyword) \o encode(text)

\* chunkData: keyword bytes, a zero byte, text bytes.
chunkDataOf(keyword, text) ==
    LET kw == encode(keyword)
        tx == encode(text)
        chunkData0 == Uint8Array(Len(kw) + 1 + Len(tx))
        chunkData1 == set(chunkData0, kw, 0)
        chunkData2 == [chunkData1 EXCEPT ![Len(kw) + 1] = 0]
    IN  set(chunkData2, tx, Len(kw) + 1)

\* A chunk whose CRC also covers the four bytes of the length field.
buildChunk_crcOverLength(keyword, text) ==
    LET chunkData == chunkDataOf(keyword, text)
        ct == encode(tEXt)
    IN  setUint32(Len(chunkData)) \o ct \o chunkData
            \o crc32(setUint32(Len(chunkData)) \o ct \o chunkData)

\* A chunk whose length field counts the whole chunk, not the data.
buildChunk_lengthOfChunk(keyword, text) ==
    LET chunkData == chunkDataOf(keyword, text)
        ct == encode(tEXt)
    IN  setUint32(12 + Len(chunkData)) \o ct \o chunkData \o crc32(ct \o chunkData)

\* chunk: length, type, data, CRC over type and data.
buildChunk(keyword, text) ==
    LET chunkData == chunkDataOf(keyword, text)
        ct == encode(tEXt)
        crcIn == set(set(Uint8Array(4 + Len(chunkData)), ct, 0), chunkData, 4)
        chunk0 == Uint8Array(12 + Len(chunkData))
        chunk1 == set(chunk0, setUint32(Len(chunkData)), 0)
        chunk2 == set(set(chunk1, ct, 4), chunkData, 8)
    IN  set(chunk2, crc32(crcIn), Len(chunk2) - 4)

\* A fallback that appends: the position is the end of the buffer.
insertPos_fallbackAtEnd(pngBytes, iend) == IF iend # -1 THEN iend ELSE Len(pngBytes)

\* A position after the IEND chunk instead of before it.
insertPos_afterIEND(pngBytes, iend) ==
    IF iend # -1 THEN iend + 12 ELSE Len(pngBytes) - 12

\* A position right after the signature, before every chunk.
insertPos_afterSignature(pngBytes, iend) == 8

\* pos = iend !== -1 ? iend : pngBytes.length - 12
insertPos(pngBytes, iend) == IF iend # -1 THEN iend ELSE Len(pngBytes) - 12

\* A splice that copies the bytes after the chunk from pos + 1 on.
splice_shiftedTail(pngBytes, chunk, pos) ==
    LET out0 == Uint8Array(Len(pngBytes) + Len(chunk))
        head == subarray(pngBytes, 0, pos)
        tail == subarrayFrom(pngBytes, pos + 1)
    IN  IF ~setFits(out0, chunk, pos) THEN RangeError
        ELSE Bytes(set(set(set(out0, head, 0), chunk, pos), tail, pos + Len(chunk)))

\* A splice that writes the chunk over the bytes from pos on and ends there.
splice_truncate(pngBytes, chunk, pos) ==
    IF pos < 0 THEN RangeError
    ELSE Bytes(subarray(pngBytes, 0, pos) \o chunk)

\* out: the bytes before pos, the chunk, the bytes from pos on.
splice(pngBytes, chunk, pos) ==
    LET out0 == Uint8Array(Len(pngBytes) + Len(chunk))
        head == subarray(pngBytes, 0, pos)
        tail == subarrayFrom(pngBytes, pos)
    IN  IF ~setFits(out0, chunk, pos) THEN RangeError
        ELSE IF ~setFits(out0, tail, pos + Len(chunk)) THEN RangeError
        ELSE Bytes(set(set(set(out0, head, 0), chunk, pos), tail, pos + Len(chunk)))

\* buildChunk is a pure function of (keyword, text): tabulated over the inputs.
chunkOf == [in \in EmbedInputs |-> buildChunk(in[1], in[2])]

injectTextChunk(pngBytes, keyword, text) ==
    LET chunk == chunkOf[<< keyword, text >>]
        iend == findChunkPos(pngBytes, IEND)
    IN  IF iend.kind = "throw" THEN RangeError
        ELSE splice(pngBytes, chunk, insertPos(pngBytes, iend.val))

(***************************************************************************)
(* extractTextChunk(pngBytes, keyword).                                    *)
(***************************************************************************)
\* A scan that takes the end of data for the separator when there is no zero.
RECURSIVE firstZero_orEnd(_, _)
firstZero_orEnd(data, i) ==
    IF ~(i < Len(data)) THEN Len(data)
    ELSE IF data[i + 1] = 0 THEN i
    ELSE firstZero_orEnd(data, i + 1)

\* ni: the index of the first zero byte of data, or -1.
RECURSIVE firstZero(_, _)
firstZero(data, i) ==
    IF ~(i < Len(data)) THEN -1
    ELSE IF data[i + 1] = 0 THEN i
    ELSE firstZero(data, i + 1)

\* A scan that gives up at the first tEXt chunk that does not match.
RECURSIVE extractTextChunkFrom_firstTextOnly(_, _, _)
extractTextChunkFrom_firstTextOnly(pngBytes, keyword, off) ==
    IF ~(off < Len(pngBytes)) THEN Null
    ELSE IF Len(pngBytes) - off < 4 THEN RangeError
    ELSE LET len == getUint32(pngBytes, off)
             type == decode(subarray(pngBytes, off + 4, off + 8))
             data == subarray(pngBytes, off + 8, off + 8 + len)
             ni == firstZero(data, 0)
         IN  IF type = tEXt
               THEN IF ni > 0 /\ decode(subarray(data, 0, ni)) = keyword
                      THEN String(decode(subarrayFrom(data, ni + 1)))
                      ELSE Null
             ELSE IF type = IEND THEN Null
             ELSE extractTextChunkFrom_firstTextOnly(pngBytes, keyword, off + 12 + len)

\* A scan that returns the last matching chunk instead of the first.
RECURSIVE extractTextChunkFrom_lastMatch(_, _, _)
extractTextChunkFrom_lastMatch(pngBytes, keyword, off) ==
    IF ~(off < Len(pngBytes)) THEN Null
    ELSE IF Len(pngBytes) - off < 4 THEN RangeError
    ELSE LET len == getUint32(pngBytes, off)
             type == decode(subarray(pngBytes, off + 4, off + 8))
             data == subarray(pngBytes, off + 8, off + 8 + len)
             ni == firstZero(data, 0)
             rest == IF type = IEND THEN Null
                     ELSE extractTextChunkFrom_lastMatch(pngBytes, keyword, off + 12 + len)
         IN  IF type = tEXt /\ ni > 0 /\ decode(subarray(data, 0, ni)) = keyword
                  /\ rest.kind # "string"
               THEN String(decode(subarrayFrom(data, ni + 1)))
             ELSE rest

\* A scan that ends the text at its first zero byte.
RECURSIVE extractTextChunkFrom_textToZero(_, _, _)
extractTextChunkFrom_textToZero(pngBytes, keyword, off) ==
    IF ~(off < Len(pngBytes)) THEN Null
    ELSE IF Len(pngBytes) - off < 4 THEN RangeError
    ELSE LET len == getUint32(pngBytes, off)
             type == decode(subarray(pngBytes, off + 4, off + 8))
             data == subarray(pngBytes, off + 8, off + 8 + len)
             ni == firstZero(data, 0)
             rest == subarrayFrom(data, ni + 1)
             nz == firstZero(rest, 0)
         IN  IF type = tEXt /\ ni > 0 /\ decode(subarray(data, 0, ni)) = keyword
               THEN String(decode(IF nz = -1 THEN rest ELSE subarray(rest, 0, nz)))
             ELSE IF type = IEND THEN Null
             ELSE extractTextChunkFrom_textToZero(pngBytes, keyword, off + 12 + len)

\* A scan that tests ni >= 0: a chunk with an empty keyword can match.
RECURSIVE extractTextChunkFrom_zeroAtStart(_, _, _)
extractTextChunkFrom_zeroAtStart(pngBytes, keyword, off) ==
    IF ~(off < Len(pngBytes)) THEN Null
    ELSE IF Len(pngBytes) - off < 4 THEN RangeError
    ELSE LET len == getUint32(pngBytes, off)
             type == decode(subarray(pngBytes, off + 4, off + 8))
             data == subarray(pngBytes, off + 8, off + 8 + len)
             ni == firstZero(data, 0)
         IN  IF type = tEXt /\ ni >= 0 /\ decode(subarray(data, 0, ni)) = keyword
               THEN String(decode(subarrayFrom(data, ni + 1)))
             ELSE IF type = IEND THEN Null
             ELSE extractTextChunkFrom_zeroAtStart(pngBytes, keyword, off + 12 + len)

\* A scan that matches a chunk whose keyword is a prefix of the one asked for.
RECURSIVE extractTextChunkFrom_prefixMatch(_, _, _)
extractTextChunkFrom_prefixMatch(pngBytes, keyword, off) ==
    IF ~(off < Len(pngBytes)) THEN Null
    ELSE IF Len(pngBytes) - off < 4 THEN RangeError
    ELSE LET len == getUint32(pngBytes, off)
             type == decode(subarray(pngBytes, off + 4, off + 8))
             data == subarray(pngBytes, off + 8, off + 8 + len)
             ni == firstZero(data, 0)
             key == decode(subarray(data, 0, ni))
         IN  IF type = tEXt /\ ni > 0 /\ Len(key) <= Len(keyword)
                  /\ key = SubSeq(keyword, 1, Len(key))
               THEN String(decode(subarrayFrom(data, ni + 1)))
             ELSE IF type = IEND THEN Null
             ELSE extractTextChunkFrom_prefixMatch(pngBytes, keyword, off + 12 + len)

\* A scan without the break at IEND.
RECURSIVE extractTextChunkFrom_noBreak(_, _, _)
extractTextChunkFrom_noBreak(pngBytes, keyword, off) ==
    IF ~(off < Len(pngBytes)) THEN Null
    ELSE IF Len(pngBytes) - off < 4 THEN RangeError
    ELSE LET len == getUint32(pngBytes, off)
             type == decode(subarray(pngBytes, off + 4, off + 8))
             data == subarray(pngBytes, off + 8, off + 8 + len)
             ni == firstZero(data, 0)
         IN  IF type = tEXt /\ ni > 0 /\ decode(subarray(data, 0, ni)) = keyword
               THEN String(decode(subarrayFrom(data, ni + 1)))
             ELSE extractTextChunkFrom_noBreak(pngBytes, keyword, off + 12 + len)

\* A scan that returns null for a matching chunk whose text is empty.
RECURSIVE extractTextChunkFrom_emptyIsNull(_, _, _)
extractTextChunkFrom_emptyIsNull(pngBytes, keyword, off) ==
    IF ~(off < Len(pngBytes)) THEN Null
    ELSE IF Len(pngBytes) - off < 4 THEN RangeError
    ELSE LET len == getUint32(pngBytes, off)
             type == decode(subarray(pngBytes, off + 4, off + 8))
             data == subarray(pngBytes, off + 8, off + 8 + len)
             ni == firstZero(data, 0)
             text == decode(subarrayFrom(data, ni + 1))
         IN  IF type = tEXt /\ ni > 0 /\ decode(subarray(data, 0, ni)) = keyword
               THEN (IF text = << >> THEN Null ELSE String(text))
             ELSE IF type = IEND THEN Null
             ELSE extractTextChunkFrom_emptyIsNull(pngBytes, keyword, off + 12 + len)

RECURSIVE extractTextChunkFrom(_, _, _)
extractTextChunkFrom(pngBytes, keyword, off) ==
    IF ~(off < Len(pngBytes)) THEN Null
    ELSE IF Len(pngBytes) - off < 4 THEN RangeError
    ELSE LET len == getUint32(pngBytes, off)
             type == decode(subarray(pngBytes, off + 4, off + 8))
             data == subarray(pngBytes, off + 8, off + 8 + len)
             ni == firstZero(data, 0)
         IN  IF type = tEXt /\ ni > 0 /\ decode(subarray(data, 0, ni)) = keyword
               THEN String(decode(subarrayFrom(data, ni + 1)))
             ELSE IF type = IEND THEN Null
             ELSE extractTextChunkFrom(pngBytes, keyword, off + 12 + len)

\* The byte indices (from 0) a subarray(begin, end) of buf is a view of.
viewOf(buf, begin, end) ==
    RelIndex(begin, Len(buf))..(RelIndex(end, Len(buf)) - 1)

\* Reads in which the data of a tEXt chunk are the declared len bytes, not
\* the view clamped to the buffer.
RECURSIVE extractTextChunkReads_declaredLength(_, _, _)
extractTextChunkReads_declaredLength(pngBytes, keyword, off) ==
    IF ~(off < Len(pngBytes)) \/ Len(pngBytes) - off < 4 THEN { }
    ELSE LET len == getUint32(pngBytes, off)
             type == decode(subarray(pngBytes, off + 4, off + 8))
             data == subarray(pngBytes, off + 8, off + 8 + len)
             ni == firstZero(data, 0)
             here == (off..(off + 3)) \cup viewOf(pngBytes, off + 4, off + 8)
                         \cup (IF type = tEXt THEN (off + 8)..(off + 7 + len) ELSE { })
         IN  IF type = tEXt /\ ni > 0 /\ decode(subarray(data, 0, ni)) = keyword
               THEN here
             ELSE IF type = IEND THEN here
             ELSE here \cup extractTextChunkReads_declaredLength(pngBytes, keyword,
                                                                 off + 12 + len)

\* The byte indices (from 0) of pngBytes that extractTextChunk reads from
\* offset off on: the four bytes of getUint32, the view decoded as the type,
\* and of the data view of a tEXt chunk the bytes up to its first zero byte,
\* and the bytes after it when the keyword matches.
RECURSIVE extractTextChunkReads(_, _, _)
extractTextChunkReads(pngBytes, keyword, off) ==
    IF ~(off < Len(pngBytes)) \/ Len(pngBytes) - off < 4 THEN { }
    ELSE LET len == getUint32(pngBytes, off)
             type == decode(subarray(pngBytes, off + 4, off + 8))
             data == subarray(pngBytes, off + 8, off + 8 + len)
             ni == firstZero(data, 0)
             match == type = tEXt /\ ni > 0 /\ decode(subarray(data, 0, ni)) = keyword
             scanned == IF ni = -1 THEN viewOf(pngBytes, off + 8, off + 8 + len)
                        ELSE (off + 8)..(off + 8 + ni)
             here == (off..(off + 3)) \cup viewOf(pngBytes, off + 4, off + 8)
                         \cup (IF type = tEXt THEN scanned ELSE { })
                         \cup (IF match THEN viewOf(pngBytes, off + 8, off + 8 + len)
                               ELSE { })
         IN  IF match \/ type = IEND THEN here
             ELSE here \cup extractTextChunkReads(pngBytes, keyword, off + 12 + len)

extractTextChunk(pngBytes, keyword) == extractTextChunkFrom(pngBytes, keyword, 8)

(***************************************************************************)
(* The stores of a call.  Every typed array is a view of a storage: a new   *)
(* Uint8Array(n) has a storage of its own, a subarray and a DataView share  *)
(* the storage of the array they are made from.  A store is                 *)
(* [target, offset, bytes]: target names the storage written to.            *)
(***************************************************************************)
(* The codec of src/unnamed/part_000: the same three functions written out *)
(* at length, with the fallback of injectTextChunk as a branch of its own. *)
(* Its crc32 is, statement by statement, the crc32 above.                  *)
(***************************************************************************)
RECURSIVE findChunkPositionFrom(_, _, _)
findChunkPositionFrom(pngBytes, chunkName, offset) ==
    IF ~(offset < Len(pngBytes)) THEN Number(-1)
    ELSE IF Len(pngBytes) - offset < 4 THEN RangeErrorAt(offset)
    ELSE LET length == getUint32(pngBytes, offset)
             type == decode(subarray(pngBytes, offset + 4, offset + 8))
         IN  IF type = chunkName THEN Number(offset)
             ELSE findChunkPositionFrom(pngBytes, chunkName, offset + 12 + length)

findChunkPosition(pngBytes, chunkName) == findChunkPositionFrom(pngBytes, chunkName, 8)

\* chunk: chunkLength, chunkType, chunkData, crc of chunkType and chunkData.
part000_buildChunk(keyword, text) ==
    LET keywordBytes == encode(keyword)
        textBytes == encode(text)
        chunkData0 == Uint8Array(Len(keywordBytes) + 1 + Len(textBytes))
        chunkData1 == set(chunkData0, keywordBytes, 0)
        chunkData2 == [chunkData1 EXCEPT ![Len(keywordBytes) + 1] = 0]
        chunkData == set(chunkData2, textBytes, Len(keywordBytes) + 1)
        chunkType == encode(tEXt)
        chunkLength == Len(chunkData)
        crcInput == set(set(Uint8Array(4 + Len(chunkData)), chunkType, 0), chunkData, 4)
        crc == crc32(crcInput)
        chunk0 == Uint8Array(4 + 4 + Len(chunkData) + 4)
        chunk1 == set(chunk0, setUint32(chunkLength), 0)
        chunk2 == set(chunk1, chunkType, 4)
        chunk3 == set(chunk2, chunkData, 8)
    IN  set(chunk3, crc, Len(chunk3) - 4)

part000_chunkOf == [in \in EmbedInputs |-> part000_buildChunk(in[1], in[2])]

\* result.set(head, 0); result.set(chunk, at); result.set(tail, at + chunk.length)
part000_result(pngBytes, chunk, head, at, tail) ==
    LET result0 == Uint8Array(Len(pngBytes) + Len(chunk))
    IN  IF ~setFits(result0, head, 0) THEN RangeError
        ELSE IF ~setFits(result0, chunk, at) THEN RangeError
        ELSE IF ~setFits(result0, tail, at + Len(chunk)) THEN RangeError
        ELSE Bytes(set(set(set(result0, head, 0), chunk, at), tail, at + Len(chunk)))

\* A fallback that puts the chunk after the last byte of the buffer.
part000_injectTextChunk_appends(pngBytes, keyword, text) ==
    LET chunk == part000_chunkOf[<< keyword, text >>]
        iendPos == findChunkPosition(pngBytes, IEND)
    IN  IF iendPos.kind = "throw" THEN RangeError
        ELSE IF iendPos.val = -1
          THEN part000_result(pngBytes, chunk, pngBytes, Len(pngBytes), << >>)
        ELSE part000_result(pngBytes, chunk, subarray(pngBytes, 0, iendPos.val),
                            iendPos.val, subarrayFrom(pngBytes, iendPos.val))

part000_injectTextChunk(pngBytes, keyword, text) ==
    LET chunk == part000_chunkOf[<< keyword, text >>]
        iendPos == findChunkPosition(pngBytes, IEND)
    IN  IF iendPos.kind = "throw" THEN RangeError
        ELSE IF iendPos.val = -1
          THEN part000_result(pngBytes, chunk,
                              subarray(pngBytes, 0, Len(pngBytes) - 12),
                              Len(pngBytes) - 12,
                              subarrayFrom(pngBytes, Len(pngBytes) - 12))
        ELSE part000_result(pngBytes, chunk, subarray(pngBytes, 0, iendPos.val),
                            iendPos.val, subarrayFrom(pngBytes, iendPos.val))

RECURSIVE part000_extractTextChunkFrom(_, _, _)
part000_extractTextChunkFrom(pngBytes, keyword, offset) ==
    IF ~(offset < Len(pngBytes)) THEN Null
    ELSE IF Len(pngBytes) - offset < 4 THEN RangeError
    ELSE LET length == getUint32(pngBytes, offset)
             type == decode(subarray(pngBytes, offset + 4, offset + 8))
             data == subarray(pngBytes, offset + 8, offset + 8 + length)
             nullIdx == firstZero(data, 0)
             key == decode(subarray(data, 0, nullIdx))
             next == IF type = IEND THEN Null
                     ELSE part000_extractTextChunkFrom(pngBytes, keyword,
                                                       offset + 12 + length)
         IN  IF type = tEXt
               THEN IF nullIdx > 0
                      THEN IF key = keyword
                             THEN String(decode(subarrayFrom(data, nullIdx + 1)))
                             ELSE next
                      ELSE next
             ELSE next

part000_extractTextChunk(pngBytes, keyword) ==
    part000_extractTextChunkFrom(pngBytes, keyword, 8)

(***************************************************************************)
Store(target, offset, bytes) == [target |-> target, offset |-> offset, bytes |-> bytes]

\* An injectTextChunk whose first chunkData.set(kw) is pngBytes.set(kw).
injectTextChunkStores_intoInput(pngBytes, keyword, text) ==
    << Store("pngBytes", 0, encode(keyword)) >>

\* The stores of injectTextChunk, in program order, up to a throw.
injectTextChunkStores(pngBytes, keyword, text) ==
    LET kw == encode(keyword)
        tx == encode(text)
        chunkData == chunkDataOf(keyword, text)
        ct == encode(tEXt)
        chunk == chunkOf[<< keyword, text >>]
        iend == findChunkPos(pngBytes, IEND)
        pos == insertPos(pngBytes, iend.val)
        out0 == Uint8Array(Len(pngBytes) + Len(chunk))
        tail == subarrayFrom(pngBytes, pos)
    IN  << Store("chunkData", 0, kw),
           Store("chunkData", Len(kw), << 0 >>),
           Store("chunkData", Len(kw) + 1, tx),
           Store("crcIn", 0, ct),
           Store("crcIn", 4, chunkData),
           Store("chunk", 0, setUint32(Len(chunkData))),
           Store("chunk", 4, ct),
           Store("chunk", 8, chunkData),
           Store("chunk", Len(chunk) - 4, SubSeq(chunk, Len(chunk) - 3, Len(chunk))) >>
        \o (IF iend.kind = "throw" THEN << >>
            ELSE << Store("out", 0, subarray(pngBytes, 0, pos)) >>
                 \o (IF ~setFits(out0, chunk, pos) THEN << >>
                     ELSE << Store("out", pos, chunk) >>
                          \o (IF ~setFits(out0, tail, pos + Len(chunk)) THEN << >>
                              ELSE << Store("out", pos + Len(chunk), tail) >>)))

\* extractTextChunk and findChunkPos only read: they have no store.
extractTextChunkStores(pngBytes, keyword) == << >>
findChunkPosStores(png, name) == << >>

\* The bytes of the storage named target, from buf, after the first n stores.
RECURSIVE storageAfter(_, _, _, _)
storageAfter(buf, target, stores, n) ==
    IF n = 0 THEN buf
    ELSE LET before == storageAfter(buf, target, stores, n - 1)
         IN  IF stores[n].target = target
               THEN set(before, stores[n].bytes, stores[n].offset)
               ELSE before

\* How many chunks one run embeds.
MaxEmbeds == 2

(***************************************************************************)
(* PNG files a caller reads (new Uint8Array(await file.arrayBuffer())).    *)
(***************************************************************************)
Signature == << 137, 80, 78, 71, 13, 10, 26, 10 >>
IHDR == << 73, 72, 68, 82 >>

\* A chunk as a PNG writer serializes it.
pngChunk(type, data) == setUint32(Len(data)) \o type \o data \o crc32(type \o data)

IENDChunk == pngChunk(IEND, << >>)
cIHDR == pngChunk(IHDR, << 0, 1, 0 >>)
\* tEXt chunks: whispers\0old, BOM other\0b, \0e, other (no zero byte),
\* oth\0p, other\0, other\0a\0b.
cOld == pngChunk(tEXt, whispers \o << 0, 111, 108, 100 >>)
cBomKey == pngChunk(tEXt, << 239, 187, 191 >> \o other \o << 0, 98 >>)
cNoKey == pngChunk(tEXt, << 0, 101 >>)
cNoZero == pngChunk(tEXt, other)
cPrefix == pngChunk(tEXt, << 111, 116, 104, 0, 112 >>)
cEmptyText == pngChunk(tEXt, other \o << 0 >>)
cNulText == pngChunk(tEXt, other \o << 0, 97, 0, 98 >>)

\* Signature, chunks, IEND.
WellFormedFiles ==
    { Signature \o IENDChunk,
      Signature \o cIHDR \o IENDChunk,
      Signature \o cIHDR \o cOld \o IENDChunk,
      Signature \o cBomKey \o cIHDR \o IENDChunk,
      Signature \o cNoKey \o cNoZero \o cPrefix \o IENDChunk,
      Signature \o cEmptyText \o cNulText \o IENDChunk,
      Signature \o cNulText \o cOld \o IENDChunk }

\* Files that are not a signature followed by chunks ending in IEND.
MalformedFiles ==
    { Signature,
      Signature \o << 0, 0, 0, 0 >>,
      Signature \o cIHDR,
      Signature \o IENDChunk \o cOld,
      Signature \o << 0, 0, 0, 99 >> \o tEXt \o whispers \o << 0, 120 >>,
      Signature \o << 255, 255, 255, 255 >> \o IHDR \o << 1, 2, 3, 4, 5 >>,
      Signature \o cIHDR \o << 0, 0 >> }

Files == WellFormedFiles \cup MalformedFiles

(***************************************************************************)
(* The state: the caller's current PNG bytes, the file it started from,    *)
(* the (keyword, text) pairs embedded so far, and the last call with its   *)
(* outcome.                                                                *)
(***************************************************************************)
VARIABLES png, original, embedded, call

vars == << png, original, embedded, call >>

\* A call: its arguments, its outcome, the bytes of the argument buffer's
\* storage when it ends (after), and the storage its result is a view of.
NoCall ==
    [fn |-> "none", pngBytes |-> << >>, keyword |-> << >>, text |-> << >>, ret |-> Null,
     after |-> << >>, retStorage |-> "none"]

Init ==
    /\ png \in Files
    /\ original = png
    /\ embedded = << >>
    /\ call = NoCall

\* result = injectTextChunk(pngBytes, keyword, text); the caller goes on with
\* the result, or keeps its bytes when the call throws.
Inject(keyword, text) ==
    /\ Len(embedded) < MaxEmbeds
    /\ LET ret == injectTextChunk(png, keyword, text)
           stores == injectTextChunkStores(png, keyword, text)
       IN  /\ call' = [fn |-> "injectTextChunk", pngBytes |-> png,
                       keyword |-> keyword, text |-> text, ret |-> ret,
                       after |-> storageAfter(png, "pngBytes", stores, Len(stores)),
                       retStorage |-> IF ret.kind = "bytes" THEN "out" ELSE "none"]
           /\ png' = IF ret.kind = "bytes" THEN ret.val ELSE png
           /\ embedded' = IF ret.kind = "bytes"
                            THEN Append(embedded, << keyword, text >>)
                            ELSE embedded
    /\ UNCHANGED original

\* jsonStr = extractTextChunk(pngBytes, keyword)
Extract(keyword) ==
    /\ LET stores == extractTextChunkStores(png, keyword)
       IN  call' = [fn |-> "extractTextChunk", pngBytes |-> png, keyword |-> keyword,
                    text |-> << >>, ret |-> extractTextChunk(png, keyword),
                    after |-> storageAfter(png, "pngBytes", stores, Len(stores)),
                    retStorage |-> "none"]
    /\ UNCHANGED << png, original, embedded >>

\* findChunkPos(png, name); ret.val is the offset in a one-element sequence.
FindChunkPos(name) ==
    /\ LET r == findChunkPos(png, name)
           stores == findChunkPosStores(png, name)
       IN  call' = [fn |-> "findChunkPos", pngBytes |-> png, keyword |-> name,
                    text |-> << >>,
                    ret |-> [kind |-> r.kind, val |-> << r.val >>],
                    after |-> storageAfter(png, "pngBytes", stores, Len(stores)),
                    retStorage |-> "none"]
    /\ UNCHANGED << png, original, embedded >>

Next ==
    \/ \E in \in EmbedInputs : Inject(in[1], in[2])
    \/ \E keyword \in Keywords : Extract(keyword)
    \/ \E name \in ChunkNames : FindChunkPos(name)

Spec == Init /\ [][Next]_vars

(***************************************************************************)
(* crc32 on its own: a caller computes the CRC of a byte sequence.         *)
(***************************************************************************)
\* How long a byte sequence is, and the bytes it is made of.
MaxCrcLen == 3
CrcAlphabet == { 0, 1, 128, 255 }

\* The ASCII digits 123456789.
digits == << 49, 50, 51, 52, 53, 54, 55, 56, 57 >>

CrcInputs ==
    UNION { [1..n -> CrcAlphabet] : n \in 0..MaxCrcLen }
        \cup { IEND, digits, tEXt \o chunkDataOf(whispers, nameX) }

InitCrc ==
    /\ png \in CrcInputs
    /\ original = png
    /\ embedded = << >>
    /\ call = NoCall

\* crc32(buf): ret.val is the number as <<high half, low half>>.
Crc32 ==
    /\ call' = [fn |-> "crc32", pngBytes |-> png, keyword |-> << >>, text |-> << >>,
                ret |-> Number(crc32Number(png)),
                after |-> png, retStorage |-> "none"]
    /\ UNCHANGED << png, original, embedded >>

NextCrc == Crc32

SpecCrc == InitCrc /\ [][NextCrc]_vars

(***************************************************************************)
(* The two scans, one loop iteration at a time.  call.off is the loop       *)
(* variable (o, off) and call.pc is "loop" until the function returns or    *)
(* throws.  A scan is synchronous: once called it runs to its end.          *)
(***************************************************************************)
ScanCall(fn, pngBytes, keyword) ==
    [fn |-> fn, pngBytes |-> pngBytes, keyword |-> keyword, text |-> << >>,
     ret |-> Null, after |-> pngBytes, retStorage |-> "none", off |-> 8, pc |-> "loop"]

InitScan ==
    /\ png \in Files
    /\ original = png
    /\ embedded = << >>
    /\ call \in { ScanCall("findChunkPos", png, name) : name \in ChunkNames }
                  \cup { ScanCall("extractTextChunk", png, keyword) : keyword \in Keywords }

\* The scan ends with outcome ret.
Return(ret) == call' = [call EXCEPT !.ret = ret, !.pc = "done"]

\* One pass through while (o < png.length) { ... } of findChunkPos.
FindChunkPosStep ==
    /\ call.fn = "findChunkPos"
    /\ call.pc = "loop"
    /\ LET b == call.pngBytes
           o == call.off
       IN  IF ~(o < Len(b)) THEN Return(Number(-1))
           ELSE IF Len(b) - o < 4 THEN Return(RangeErrorAt(o))
           ELSE LET l == getUint32(b, o)
                IN  IF decode(subarray(b, o + 4, o + 8)) = call.keyword
                      THEN Return(Number(o))
                      ELSE call' = [call EXCEPT !.off = o + 12 + l]
    /\ UNCHANGED << png, original, embedded >>

\* One pass through while (off < pngBytes.length) { ... } of extractTextChunk.
ExtractTextChunkStep ==
    /\ call.fn = "extractTextChunk"
    /\ call.pc = "loop"
    /\ LET b == call.pngBytes
           off == call.off
       IN  IF ~(off < Len(b)) THEN Return(Null)
           ELSE IF Len(b) - off < 4 THEN Return(RangeError)
           ELSE LET len == getUint32(b, off)
                    type == decode(subarray(b, off + 4, off + 8))
                    data == subarray(b, off + 8, off + 8 + len)
                    ni == firstZero(data, 0)
                IN  IF type = tEXt /\ ni > 0 /\ decode(subarray(data, 0, ni)) = call.keyword
                      THEN Return(String(decode(subarrayFrom(data, ni + 1))))
                    ELSE IF type = IEND THEN Return(Null)
                    ELSE call' = [call EXCEPT !.off = off + 12 + len]
    /\ UNCHANGED << png, original, embedded >>

NextScan ==
    \/ FindChunkPosStep
    \/ ExtractTextChunkStep

SpecScan == InitScan /\ [][NextScan]_vars /\ WF_vars(NextScan)

(***************************************************************************)
(* Vocabulary of the properties: the chunk structure of a buffer, read     *)
(* without the codec.                                                      *)
(***************************************************************************)
\* The chunks from offset o on tile the buffer exactly.
RECURSIVE Tiles(_, _)
Tiles(buf, o) ==
    IF o = Len(buf) THEN TRUE
    ELSE /\ Len(buf) - o >= 12
         /\ getUint32(buf, o) <= Len(buf) - o - 12
         /\ Tiles(buf, o + 12 + getUint32(buf, o))

\* The offsets of the chunks from offset o on (of a buffer that tiles).
RECURSIVE ChunkOffsets(_, _)
ChunkOffsets(buf, o) ==
    IF o >= Len(buf) THEN << >>
    ELSE << o >> \o ChunkOffsets(buf, o + 12 + getUint32(buf, o))

TypeAt(buf, o) == SubSeq(buf, o + 5, o + 8)
DataAt(buf, o) == SubSeq(buf, o + 9, o + 8 + getUint32(buf, o))
ChunkAt(buf, o) == SubSeq(buf, o + 1, o + 12 + getUint32(buf, o))

\* The chunks of a buffer that tiles, in file order.
Chunks(buf) ==
    LET offs == ChunkOffsets(buf, 8)
    IN  [i \in 1..Len(offs) |-> ChunkAt(buf, offs[i])]

\* A valid PNG buffer: the signature, chunks that tile the rest, and exactly
\* one IEND chunk, which is last.
IsPng(buf) ==
    /\ Len(buf) >= 20
    /\ SubSeq(buf, 1, 8) = Signature
    /\ Tiles(buf, 8)
    /\ LET offs == ChunkOffsets(buf, 8)
       IN  \A i \in 1..Len(offs) : (TypeAt(buf, offs[i]) = IEND) <=> (i = Len(offs))

\* The offset of the IEND chunk of a valid PNG buffer.
IendOffset(buf) ==
    LET offs == ChunkOffsets(buf, 8) IN offs[Len(offs)]

\* buf has a tEXt chunk whose keyword (the data bytes before the first zero
\* byte, decoded) is keyword.
HasTextChunk(buf, keyword) ==
    \E o \in { ChunkOffsets(buf, 8)[i] : i \in 1..Len(ChunkOffsets(buf, 8)) } :
        /\ TypeAt(buf, o) = tEXt
        /\ LET data == DataAt(buf, o)
           IN  \E z \in 1..Len(data) :
                   /\ data[z] = 0
                   /\ \A y \in 1..(z - 1) : data[y] # 0
                   /\ decode(SubSeq(data, 1, z - 1)) = keyword

\* buf has no tEXt chunk at all.
NoTextChunks(buf) ==
    \A i \in 1..Len(ChunkOffsets(buf, 8)) : TypeAt(buf, ChunkOffsets(buf, 8)[i]) # tEXt

\* seq without its i-th element.
RemoveAt(seq, i) == SubSeq(seq, 1, i - 1) \o SubSeq(seq, i + 1, Len(seq))

\* A string that UTF-8 represents and TextDecoder gives back: no lone
\* surrogate, no byte order mark in front.
WellFormedString(s) ==
    \A i \in 1..Len(s) :
        /\ IsHigh(s[i]) => (i < Len(s) /\ IsLow(s[i + 1]))
        /\ IsLow(s[i]) => (i > 1 /\ IsHigh(s[i - 1]))
NoBOM(s) == s = << >> \/ s[1] # 65279
RoundTrips(s) == WellFormedString(s) /\ NoBOM(s)
NoNul(s) == \A i \in 1..Len(s) : s[i] # 0

\* The call in the state is an injectTextChunk that returned.
Injected == call.fn = "injectTextChunk" /\ call.ret.kind = "bytes"

\* The position the last injectTextChunk call inserted at, and its data length.
PosOf(c) == insertPos(c.pngBytes, findChunkPos(c.pngBytes, IEND).val)
DataLenOf(c) == Len(encode(c.keyword)) + 1 + Len(encode(c.text))

(***************************************************************************)
(* Properties.                                                             *)
(***************************************************************************)

\* C1 as stated: for every valid PNG buffer b, every keyword k with no zero
\* byte and every text t, injectTextChunk(b, k, t) returns and
\* extractTextChunk of the result with k returns t.
RoundTripEveryInput ==
    (call.fn = "injectTextChunk" /\ IsPng(call.pngBytes) /\ NoNul(call.keyword))
        => /\ call.ret.kind = "bytes"
           /\ extractTextChunk(call.ret.val, call.keyword) = String(call.text)

\* C1 as amended: the round trip holds when moreover k is not empty, k and t
\* have no lone surrogate and no leading U+FEFF, and extractTextChunk(b, k)
\* is null (b has no chunk that already matches k).
RoundTrip ==
    ( /\ call.fn = "injectTextChunk"
      /\ IsPng(call.pngBytes)
      /\ call.keyword # << >>
      /\ NoNul(call.keyword)
      /\ RoundTrips(call.keyword)
      /\ RoundTrips(call.text)
      /\ extractTextChunk(call.pngBytes, call.keyword) = Null )
        => /\ call.ret.kind = "bytes"
           /\ extractTextChunk(call.ret.val, call.keyword) = String(call.text)

\* A multi-byte text with a NUL in it made the round trip through a PNG
\* that has other chunks.
RoundTripWitness ==
    /\ Injected
    /\ IsPng(call.pngBytes)
    /\ Len(call.pngBytes) > 20
    /\ call.keyword = other
    /\ call.text = wideText
    /\ extractTextChunk(call.pngBytes, other) = Null
    /\ extractTextChunk(call.ret.val, other) = String(wideText)

\* C2: for a valid PNG buffer b, every keyword k2 that extractTextChunk(b, k2)
\* returns a value for still gives that value after injectTextChunk(b, k, t),
\* also when k = k2, and the chunks of b are in the output unchanged and in
\* the same order (the output's chunks, less one, are b's).
NonDestructive ==
    (call.fn = "injectTextChunk" /\ IsPng(call.pngBytes))
        => /\ call.ret.kind = "bytes"
           /\ \A k2 \in Keywords \cup { bomKey } :
                  extractTextChunk(call.pngBytes, k2).kind = "string"
                      => extractTextChunk(call.ret.val, k2)
                             = extractTextChunk(call.pngBytes, k2)
           /\ Tiles(call.ret.val, 8)
           /\ \E i \in 1..Len(Chunks(call.ret.val)) :
                  RemoveAt(Chunks(call.ret.val), i) = Chunks(call.pngBytes)

\* A keyword that b already had a value for was embedded again, and b's
\* value is still the one extracted.
NonDestructiveWitness ==
    /\ Injected
    /\ IsPng(call.pngBytes)
    /\ call.keyword = whispers
    /\ extractTextChunk(call.pngBytes, whispers) = String(<< 111, 108, 100 >>)
    /\ extractTextChunk(call.ret.val, whispers) = String(<< 111, 108, 100 >>)
    /\ Len(Chunks(call.ret.val)) = Len(Chunks(call.pngBytes)) + 1

\* C3: for a well-formed PNG buffer b with no tEXt chunk whose keyword is k
\* (the signature-and-IEND buffer too), extractTextChunk(b, k) returns null
\* and does not throw.
Absence ==
    ( /\ call.fn = "extractTextChunk"
      /\ IsPng(call.pngBytes)
      /\ ~HasTextChunk(call.pngBytes, call.keyword) )
        => call.ret = Null

\* extractTextChunk returned null on a PNG whose tEXt chunks are an empty
\* keyword, one with no zero byte, and a proper prefix of the keyword.
AbsenceWitness ==
    /\ call.fn = "extractTextChunk"
    /\ call.pngBytes = Signature \o cNoKey \o cNoZero \o cPrefix \o IENDChunk
    /\ call.keyword = other
    /\ call.ret = Null

\* C4: whenever injectTextChunk returns, on the IEND path and on the
\* fallback path, the output is len(b) + 12 + len(UTF8(k)) + 1 + len(UTF8(t))
\* bytes long.
LengthInvariant ==
    Injected
        => Len(call.ret.val)
             = Len(call.pngBytes) + 12 + Len(encode(call.keyword)) + 1
                 + Len(encode(call.text))

\* injectTextChunk returned on the fallback path (no IEND found) with a text
\* whose UTF-8 length differs from its length in code units.
LengthInvariantWitness ==
    /\ Injected
    /\ findChunkPos(call.pngBytes, IEND) = Number(-1)
    /\ call.text = wideText
    /\ Len(encode(call.text)) # Len(call.text)
    /\ Len(call.ret.val) = Len(call.pngBytes) + 25

\* C5: in the output of injectTextChunk, the last 4 bytes of the inserted
\* chunk are the big-endian CRC-32 of its type bytes 'tEXt' followed by its
\* data bytes (keyword, 0x00, text), and not of a range that takes in the
\* length field.
CrcOfInsertedChunk ==
    Injected
        => LET out == call.ret.val
               p == PosOf(call)
               n == DataLenOf(call)
           IN  /\ SubSeq(out, p + 5, p + 8) = tEXt
               /\ SubSeq(out, p + 9, p + 8 + n)
                    = encode(call.keyword) \o << 0 >> \o encode(call.text)
               /\ SubSeq(out, p + 9 + n, p + 12 + n) = crc32(SubSeq(out, p + 5, p + 8 + n))
               /\ SubSeq(out, p + 9 + n, p + 12 + n) # crc32(SubSeq(out, p + 1, p + 8 + n))

\* The chunk for 'whispers' and {"name":"X"} was inserted and ends in
\* 9B AA C7 B3, the CRC-32 of tEXtwhispers\0{"name":"X"}.
CrcOfInsertedChunkWitness ==
    /\ Injected
    /\ call.keyword = whispers
    /\ call.text = nameX
    /\ SubSeq(call.ret.val, PosOf(call) + 30, PosOf(call) + 33) = << 155, 170, 199, 179 >>

\* C6: for a valid PNG buffer b whose IEND chunk starts at offset p, the
\* inserted chunk occupies [p, p + 12 + len(data)) of the output and
\* findChunkPos(output, 'IEND') is p + 12 + len(data).
IendAdjacency ==
    (call.fn = "injectTextChunk" /\ IsPng(call.pngBytes))
        => LET p == IendOffset(call.pngBytes)
               n == DataLenOf(call)
           IN  /\ call.ret.kind = "bytes"
               /\ findChunkPos(call.pngBytes, IEND) = Number(p)
               /\ SubSeq(call.ret.val, p + 1, p + 12 + n)
                    = chunkOf[<< call.keyword, call.text >>]
               /\ findChunkPos(call.ret.val, IEND) = Number(p + 12 + n)

\* A text that is the four bytes 'IEND' was embedded in a PNG with other
\* chunks, and IEND is found right after the inserted chunk.
IendAdjacencyWitness ==
    /\ Injected
    /\ IsPng(call.pngBytes)
    /\ Len(call.pngBytes) > 20
    /\ call.text = IEND
    /\ findChunkPos(call.ret.val, IEND)
         = Number(IendOffset(call.pngBytes) + 12 + DataLenOf(call))

\* C7 as stated: from a valid PNG with no tEXt chunks, after two embeds with
\* different keywords k1 and k2 (in either order of the two calls),
\* extractTextChunk returns t1 for k1 and t2 for k2.
CoexistEveryKeyword ==
    ( /\ IsPng(original)
      /\ NoTextChunks(original)
      /\ Len(embedded) = 2
      /\ embedded[1][1] # embedded[2][1] )
        => /\ extractTextChunk(png, embedded[1][1]) = String(embedded[1][2])
           /\ extractTextChunk(png, embedded[2][1]) = String(embedded[2][2])

\* C7 as amended: the same, for keywords that are not empty and have no zero
\* byte, and keywords and texts with no lone surrogate and no leading U+FEFF.
Coexist ==
    ( /\ IsPng(original)
      /\ NoTextChunks(original)
      /\ Len(embedded) = 2
      /\ embedded[1][1] # embedded[2][1]
      /\ \A i \in 1..2 :
             /\ embedded[i][1] # << >>
             /\ NoNul(embedded[i][1])
             /\ RoundTrips(embedded[i][1])
             /\ RoundTrips(embedded[i][2]) )
        => /\ extractTextChunk(png, embedded[1][1]) = String(embedded[1][2])
           /\ extractTextChunk(png, embedded[2][1]) = String(embedded[2][2])

\* 'other' was embedded, then 'whispers', and extractTextChunk gave the text
\* of the first embed.
CoexistWitness ==
    /\ IsPng(original)
    /\ NoTextChunks(original)
    /\ embedded = << << other, wideText >>, << whispers, nameX >> >>
    /\ call.fn = "extractTextChunk"
    /\ call.pngBytes = png
    /\ call.keyword = other
    /\ call.ret = String(wideText)

\* The buffer of the scenario: the signature and a zero-length IEND chunk.
MinimalPng ==
    << 137, 80, 78, 71, 13, 10, 26, 10, 0, 0, 0, 0, 73, 69, 78, 68, 174, 66, 96, 130 >>

\* C8 as stated: injectTextChunk(MinimalPng, 'whispers', '{"name":"X"}')
\* gives a buffer of length 100, from which 'whispers' extracts the text.
ScenarioLength100 ==
    ( /\ call.fn = "injectTextChunk"
      /\ call.pngBytes = MinimalPng
      /\ call.keyword = whispers
      /\ call.text = nameX )
        => /\ call.ret.kind = "bytes"
           /\ Len(call.ret.val) = 100
           /\ extractTextChunk(call.ret.val, whispers) = String(nameX)

\* C8 as amended: the buffer given is 20 bytes long, and the result is
\* 20 + 12 + 8 + 1 + 12 = 53 bytes long; the text is extracted from it.
ScenarioLength53 ==
    ( /\ call.fn = "injectTextChunk"
      /\ call.pngBytes = MinimalPng
      /\ call.keyword = whispers
      /\ call.text = nameX )
        => /\ call.ret.kind = "bytes"
           /\ Len(call.ret.val) = 53
           /\ extractTextChunk(call.ret.val, whispers) = String(nameX)

\* The scenario's call was made on the 20-byte buffer.
ScenarioWitness ==
    /\ Injected
    /\ call.pngBytes = MinimalPng
    /\ Len(call.pngBytes) = 20
    /\ call.keyword = whispers
    /\ call.text = nameX
    /\ Len(call.ret.val) = 53

\* C9: for the position pos injectTextChunk chose and the chunk c it built,
\* out[i] = b[i] for i < pos, out[pos + j] = c[j] for j < len(c), and
\* out[i + len(c)] = b[i] for i >= pos.
SplicePreservation ==
    Injected
        => LET b == call.pngBytes
               out == call.ret.val
               c == chunkOf[<< call.keyword, call.text >>]
               pos == PosOf(call)
           IN  /\ pos >= 0 /\ pos <= Len(b)
               /\ Len(out) = Len(b) + Len(c)
               /\ \A i \in 0..(Len(b) - 1) :
                      IF i < pos THEN out[i + 1] = b[i + 1]
                      ELSE out[i + Len(c) + 1] = b[i + 1]
               /\ \A j \in 0..(Len(c) - 1) : out[pos + j + 1] = c[j + 1]

\* A splice on the fallback path, in the middle of the buffer: 11 bytes
\* before the chunk, the last 12 bytes after it.
SplicePreservationWitness ==
    /\ Injected
    /\ call.pngBytes = Signature \o cIHDR
    /\ PosOf(call) = 11
    /\ SubSeq(call.ret.val, 1, 11) = SubSeq(call.pngBytes, 1, 11)
    /\ SubSeq(call.ret.val, Len(call.ret.val) - 11, Len(call.ret.val))
         = SubSeq(call.pngBytes, 12, 23)

\* C10: the chunk injectTextChunk builds for k and t is the 4-byte big-endian
\* len(UTF8(k)) + 1 + len(UTF8(t)), 'tEXt', UTF8(k), 0x00, UTF8(t), and 4
\* more bytes (the CRC); it is data length + 12 bytes long.
ChunkLayout ==
    call.fn = "injectTextChunk"
        => LET c == chunkOf[<< call.keyword, call.text >>]
               kw == encode(call.keyword)
               tx == encode(call.text)
               n == Len(kw) + 1 + Len(tx)
           IN  /\ Len(c) = n + 12
               /\ SubSeq(c, 1, 4)
                    = << n \div 16777216, (n \div 65536) % 256, (n \div 256) % 256, n % 256 >>
               /\ SubSeq(c, 5, 8) = tEXt
               /\ SubSeq(c, 9, 8 + Len(kw)) = kw
               /\ c[9 + Len(kw)] = 0
               /\ SubSeq(c, 10 + Len(kw), 8 + n) = tx
               /\ \A i \in (n + 9)..(n + 12) : c[i] \in 0..255
               /\ Injected => SubSeq(call.ret.val, PosOf(call) + 1, PosOf(call) + 12 + n) = c

\* A chunk whose keyword and text are longer in UTF-8 than in code units:
\* 5 + 1 + 7 data bytes, 25 bytes in all.
ChunkLayoutWitness ==
    /\ Injected
    /\ call.keyword = other
    /\ call.text = wideText
    /\ SubSeq(call.ret.val, PosOf(call) + 1, PosOf(call) + 4) = << 0, 0, 0, 13 >>
    /\ Len(chunkOf[<< call.keyword, call.text >>]) = 25

\* The index (from 1) of the first zero byte of data, or 0.
FirstZeroIndex(data) ==
    IF \E z \in 1..Len(data) : data[z] = 0
      THEN CHOOSE z \in 1..Len(data) : data[z] = 0 /\ \A y \in 1..(z - 1) : data[y] # 0
      ELSE 0

\* The bytes before, and the text after, the first zero byte of the chunk at o.
KeywordBytesAt(buf, o) == SubSeq(DataAt(buf, o), 1, FirstZeroIndex(DataAt(buf, o)) - 1)
TextAt(buf, o) ==
    decode(SubSeq(DataAt(buf, o), FirstZeroIndex(DataAt(buf, o)) + 1, Len(DataAt(buf, o))))

\* The smallest element of a non-empty set of numbers.
Min(S) == CHOOSE m \in S : \A n \in S : m <= n

\* The chunk at offs[i] is not after an IEND chunk.
NotAfterIend(buf, offs, i) == \A j \in 1..(i - 1) : TypeAt(buf, offs[j]) # IEND

\* C11 as stated: extractTextChunk(b, k) returns the text of the first tEXt
\* chunk, in file order, that has a zero byte and whose bytes before the first
\* zero byte decode to k, and null when there is none.
FirstMatchEveryKeyword ==
    (call.fn = "extractTextChunk" /\ Tiles(call.pngBytes, 8))
        => LET b == call.pngBytes
               offs == ChunkOffsets(b, 8)
               hits == { i \in 1..Len(offs) :
                           /\ TypeAt(b, offs[i]) = tEXt
                           /\ FirstZeroIndex(DataAt(b, offs[i])) > 0
                           /\ decode(KeywordBytesAt(b, offs[i])) = call.keyword }
           IN  call.ret = IF hits = {} THEN Null
                          ELSE String(TextAt(b, offs[Min(hits)]))

\* C11 as amended: the same, where the chunk has at least one byte before its
\* first zero byte and is not after an IEND chunk.
FirstMatch ==
    (call.fn = "extractTextChunk" /\ Tiles(call.pngBytes, 8))
        => LET b == call.pngBytes
               offs == ChunkOffsets(b, 8)
               hits == { i \in 1..Len(offs) :
                           /\ NotAfterIend(b, offs, i)
                           /\ TypeAt(b, offs[i]) = tEXt
                           /\ FirstZeroIndex(DataAt(b, offs[i])) > 1
                           /\ decode(KeywordBytesAt(b, offs[i])) = call.keyword }
           IN  call.ret = IF hits = {} THEN Null
                          ELSE String(TextAt(b, offs[Min(hits)]))

\* 'other' was embedded in a file that has two chunks with keyword 'other',
\* and extractTextChunk returns the empty text of the first of the three.
FirstMatchWitness ==
    /\ call.fn = "extractTextChunk"
    /\ original = Signature \o cEmptyText \o cNulText \o IENDChunk
    /\ embedded = << << other, wideText >> >>
    /\ call.pngBytes = png
    /\ call.keyword = other
    /\ call.ret = String(<< >>)

\* C12: findChunkPos, asked for a chunk type that does not occur before the
\* IEND chunk, returns -1 on reaching IEND: it never reports a chunk that
\* lies after IEND.
ScannerStopsAtIend ==
    ( /\ call.fn = "findChunkPos"
      /\ call.keyword # IEND
      /\ Tiles(call.pngBytes, 8)
      /\ LET offs == ChunkOffsets(call.pngBytes, 8)
         IN  \E i \in 1..Len(offs) :
                 /\ TypeAt(call.pngBytes, offs[i]) = IEND
                 /\ \A j \in 1..(i - 1) : TypeAt(call.pngBytes, offs[j]) # call.keyword )
        => call.ret = [kind |-> "number", val |-> << -1 >>]

\* C13: when findChunkPos(b, 'IEND') returns -1 and len(b) >= 12,
\* injectTextChunk returns, with the chunk at offset len(b) - 12: the first
\* len(b) - 12 bytes of b before it and the last 12 bytes of b after it.
Fallback ==
    ( /\ call.fn = "injectTextChunk"
      /\ findChunkPos(call.pngBytes, IEND) = Number(-1)
      /\ Len(call.pngBytes) >= 12 )
        => LET b == call.pngBytes
               c == chunkOf[<< call.keyword, call.text >>]
               out == call.ret.val
           IN  /\ call.ret.kind = "bytes"
               /\ Len(out) = Len(b) + Len(c)
               /\ SubSeq(out, 1, Len(b) - 12) = SubSeq(b, 1, Len(b) - 12)
               /\ SubSeq(out, Len(b) - 11, Len(b) - 12 + Len(c)) = c
               /\ SubSeq(out, Len(out) - 11, Len(out)) = SubSeq(b, Len(b) - 11, Len(b))

\* A 12-byte buffer with no IEND: the chunk goes in at offset 0, before the
\* signature.
FallbackWitness ==
    /\ Injected
    /\ call.pngBytes = Signature \o << 0, 0, 0, 0 >>
    /\ SubSeq(call.ret.val, 5, 8) = tEXt
    /\ SubSeq(call.ret.val, Len(call.ret.val) - 11, Len(call.ret.val)) = call.pngBytes

\* C14: injectTextChunk returns an output buffer for every input buffer and
\* never throws.
EncodeNeverFails ==
    call.fn = "injectTextChunk" => call.ret.kind = "bytes"

\* C15: extractTextChunk ends by returning a string or null for every input
\* buffer and never throws.
DecodeNeverFails ==
    call.fn = "extractTextChunk" => call.ret.kind \in { "string", "null" }

\* C16: when injectTextChunk, extractTextChunk or findChunkPos ends, the
\* storage of its argument buffer holds the bytes it held at the call, and
\* the buffer injectTextChunk returns is the storage of its own new
\* Uint8Array, filled by the three out.set stores, not the argument's.
NoMutation ==
    call.fn # "none"
        => /\ call.after = call.pngBytes
           /\ Len(call.after) = Len(call.pngBytes)
           /\ Injected
                => LET stores == injectTextChunkStores(call.pngBytes, call.keyword, call.text)
                   IN  /\ call.retStorage = "out"
                       /\ call.ret.val
                            = storageAfter(Uint8Array(Len(call.ret.val)), "out",
                                           stores, Len(stores))

\* An injectTextChunk returned a buffer that differs from its argument, and
\* the argument's storage is as it was.
NoMutationWitness ==
    /\ Injected
    /\ call.keyword = whispers
    /\ call.ret.val # call.pngBytes
    /\ call.after = call.pngBytes
    /\ call.retStorage = "out"

(***************************************************************************)
(* The CRC-32 of PNG and zlib as polynomial arithmetic over GF(2): the     *)
(* message bits, least significant bit of each byte first, followed by 32  *)
(* zero bits, with the first 32 bits complemented, are divided by          *)
(* x^32+x^26+x^23+x^22+x^16+x^12+x^11+x^10+x^8+x^7+x^5+x^4+x^2+x+1; the    *)
(* complemented remainder is the CRC, the coefficient of x^31 in bit 0.    *)
(***************************************************************************)
Generator ==
    << 1, 0, 0, 0, 0, 0, 1, 0, 0, 1, 1, 0, 0, 0, 0, 0, 1,
       0, 0, 0, 1, 1, 1, 0, 1, 1, 0, 1, 1, 0, 1, 1, 1 >>

\* The bits of byte b, least significant first, and of a byte sequence.
BitsOf(b) ==
    << b % 2, (b \div 2) % 2, (b \div 4) % 2, (b \div 8) % 2,
       (b \div 16) % 2, (b \div 32) % 2, (b \div 64) % 2, (b \div 128) % 2 >>

RECURSIVE BitsOfAll(_, _)
BitsOfAll(buf, n) == IF n = 0 THEN << >> ELSE BitsOfAll(buf, n - 1) \o BitsOf(buf[n])

\* row with the first 32 bits complemented.
Complemented(row) ==
    [i \in 1..32 |-> 1 - row[i]] \o SubSeq(row, 33, Len(row))

MessageBits(buf) ==
    Complemented(BitsOfAll(buf, Len(buf)) \o [i \in 1..32 |-> 0])

\* window is 33 bits; it is reduced by the generator when its first bit is 1.
Reduce(window) ==
    IF window[1] = 0 THEN window
    ELSE [k \in 1..33 |-> (window[k] + Generator[k]) % 2]

\* Long division from bit i to bit n of row: the remainder is left in the
\* last 32 bits.
\* One step of the long division of row a[1], at bit a[2].
Step[a \in Seq({ 0, 1 }) \X Nat] ==
    SubSeq(a[1], 1, a[2] - 1) \o Reduce(SubSeq(a[1], a[2], a[2] + 32))
        \o SubSeq(a[1], a[2] + 33, Len(a[1]))

\* The eight steps at bits a[2] .. a[2] + 7.
Step8[a \in Seq({ 0, 1 }) \X Nat] ==
    Step[<< Step[<< Step[<< Step[<< Step[<< Step[<< Step[<< Step[<< a[1], a[2] >>],
        a[2] + 1 >>], a[2] + 2 >>], a[2] + 3 >>], a[2] + 4 >>], a[2] + 5 >>],
        a[2] + 6 >>], a[2] + 7 >>]

\* Long division of the first n bytes of row: the remainder is left in the
\* 32 bits after them.
RECURSIVE Divide(_, _)
Divide(row, n) ==
    IF n = 0 THEN row ELSE Step8[<< Divide(row, n - 1), (8 * (n - 1)) + 1 >>]

ReferenceCrc(buf) ==
    LET n == 8 * Len(buf)
        row == Divide(MessageBits(buf), Len(buf))
        r == [k \in 1..32 |-> 1 - row[n + k]]
        B(j) == r[(8 * j) + 1] + (2 * r[(8 * j) + 2]) + (4 * r[(8 * j) + 3])
                  + (8 * r[(8 * j) + 4]) + (16 * r[(8 * j) + 5]) + (32 * r[(8 * j) + 6])
                  + (64 * r[(8 * j) + 7]) + (128 * r[(8 * j) + 8])
    IN  << B(3), B(2), B(1), B(0) >>

\* C17: crc32(buf) is the standard CRC-32 of buf and an unsigned 32-bit
\* integer; crc32 of the empty sequence is 0 and crc32 of 'IEND' is
\* 0xAE426082.
Crc32IsStandard ==
    call.fn = "crc32"
        => LET n == call.ret.val
           IN  /\ n[1] \in 0..65535
               /\ n[2] \in 0..65535
               /\ << n[1] \div 256, n[1] % 256, n[2] \div 256, n[2] % 256 >>
                    = ReferenceCrc(call.pngBytes)
               /\ call.pngBytes = << >> => n = << 0, 0 >>
               /\ call.pngBytes = IEND => n = << 44610, 24706 >>

\* crc32 was called on '123456789' and returned 0xCBF43926, the check value
\* of CRC-32, whose bit 31 is set.
Crc32IsStandardWitness ==
    /\ call.fn = "crc32"
    /\ call.pngBytes = digits
    /\ call.ret.val = << 52212, 14630 >>

\* The chunks extractTextChunk(b, k) can return: the indices in offs of the
\* tEXt chunks, not after IEND, with a byte before their first zero byte,
\* whose bytes before it decode to k.
Matches(b, k) ==
    LET offs == ChunkOffsets(b, 8)
    IN  { i \in 1..Len(offs) :
            /\ NotAfterIend(b, offs, i)
            /\ TypeAt(b, offs[i]) = tEXt
            /\ FirstZeroIndex(DataAt(b, offs[i])) > 1
            /\ decode(KeywordBytesAt(b, offs[i])) = k }

\* The bytes after the first zero byte of the first chunk that matches k.
MatchedTextBytes(b, k) ==
    LET data == DataAt(b, ChunkOffsets(b, 8)[Min(Matches(b, k))])
    IN  SubSeq(data, FirstZeroIndex(data) + 1, Len(data))

\* The call is an extractTextChunk on a buffer whose chunks tile, and the
\* text bytes of the chunk it matches hold a zero byte.
ExtractedTextHasZero ==
    /\ call.fn = "extractTextChunk"
    /\ Tiles(call.pngBytes, 8)
    /\ Matches(call.pngBytes, call.keyword) # {}
    /\ FirstZeroIndex(MatchedTextBytes(call.pngBytes, call.keyword)) > 0

\* C18 as stated: when the text of the matching chunk holds a zero byte, the
\* string extractTextChunk returns is the text before that zero byte.
TextEndsAtZero ==
    ExtractedTextHasZero
        => LET text == MatchedTextBytes(call.pngBytes, call.keyword)
           IN  call.ret = String(decode(SubSeq(text, 1, FirstZeroIndex(text) - 1)))

\* C18 as amended: the string returned is the whole text after the keyword
\* separator, its zero bytes included as U+0000.
TextKeepsZero ==
    ExtractedTextHasZero
        => LET text == MatchedTextBytes(call.pngBytes, call.keyword)
           IN  /\ call.ret = String(decode(text))
               /\ \E i \in 1..Len(call.ret.val) : call.ret.val[i] = 0
               /\ Len(call.ret.val) > Len(decode(SubSeq(text, 1, FirstZeroIndex(text) - 1)))

\* The chunk other\0a\0b was matched and the three code units a, U+0000, b
\* were returned.
TextKeepsZeroWitness ==
    /\ ExtractedTextHasZero
    /\ call.keyword = other
    /\ MatchedTextBytes(call.pngBytes, call.keyword) = << 97, 0, 98 >>
    /\ call.ret = String(<< 97, 0, 98 >>)

\* C20: a tEXt chunk whose first data byte is zero is never returned: when
\* every tEXt chunk of b whose bytes before the first zero byte decode to k
\* begins with a zero byte, extractTextChunk(b, k) is null; and for a valid
\* PNG b with extractTextChunk(b, '') null,
\* extractTextChunk(injectTextChunk(b, '', t), '') is null.
EmptyKeywordNeverMatches ==
    /\ (call.fn = "extractTextChunk" /\ Tiles(call.pngBytes, 8))
         => LET b == call.pngBytes
                offs == ChunkOffsets(b, 8)
            IN  (\A i \in 1..Len(offs) :
                    ( /\ TypeAt(b, offs[i]) = tEXt
                      /\ FirstZeroIndex(DataAt(b, offs[i])) > 0
                      /\ decode(KeywordBytesAt(b, offs[i])) = call.keyword )
                        => DataAt(b, offs[i])[1] = 0)
                    => call.ret = Null
    /\ ( /\ Injected
         /\ call.keyword = empty
         /\ IsPng(call.pngBytes)
         /\ extractTextChunk(call.pngBytes, empty) = Null )
         => /\ call.ret.val[PosOf(call) + 9] = 0
            /\ extractTextChunk(call.ret.val, empty) = Null

\* A text was embedded under the empty keyword in a valid PNG, the chunk is
\* there with a zero first data byte, and extractTextChunk with '' is null.
EmptyKeywordNeverMatchesWitness ==
    /\ call.fn = "extractTextChunk"
    /\ call.keyword = empty
    /\ IsPng(original)
    /\ embedded = << << empty, IEND >> >>
    /\ call.pngBytes = png
    /\ \E o \in 8..(Len(png) - 12) :
           /\ TypeAt(png, o) = tEXt
           /\ SubSeq(png, o + 9, o + 13) = << 0 >> \o IEND
    /\ call.ret = Null

\* C21: from a valid PNG (signature, chunks that tile the buffer, exactly one
\* IEND, which is last), every injectTextChunk returns, and the buffer after
\* any sequence of them is a valid PNG again.
WellFormedPreserved ==
    IsPng(original)
        => /\ IsPng(png)
           /\ call.fn = "injectTextChunk"
                => /\ IsPng(call.pngBytes)
                   /\ call.ret.kind = "bytes"
                   /\ IsPng(call.ret.val)

\* Two chunks were embedded in a valid PNG, the first with the text 'IEND',
\* and the buffer is a valid PNG with two more chunks.
WellFormedPreservedWitness ==
    /\ IsPng(original)
    /\ Len(embedded) = 2
    /\ embedded[1] = << empty, IEND >>
    /\ Injected
    /\ IsPng(png)
    /\ Len(Chunks(png)) = Len(Chunks(original)) + 2

\* png has the chunks built for (k, t1) and (k, t2), the first at a lower
\* offset.
BothPresent(buf, k, t1, t2) ==
    LET cs == Chunks(buf)
    IN  \E i, j \in 1..Len(cs) :
            /\ i < j
            /\ cs[i] = chunkOf[<< k, t1 >>]
            /\ cs[j] = chunkOf[<< k, t2 >>]

\* C22 as stated: after injectTextChunk(b, k, t1) and injectTextChunk of the
\* result with k and another text t2, both chunks are there and
\* extractTextChunk with k returns t1.
ReEmbedEveryInput ==
    ( /\ Len(embedded) = 2
      /\ embedded[1][1] = embedded[2][1]
      /\ embedded[1][2] # embedded[2][2] )
        => /\ Tiles(png, 8)
           /\ BothPresent(png, embedded[1][1], embedded[1][2], embedded[2][2])
           /\ extractTextChunk(png, embedded[1][1]) = String(embedded[1][2])

\* C22 as amended: the same, for a valid PNG b with extractTextChunk(b, k)
\* null, k not empty and without a zero byte, and k and t1 without a lone
\* surrogate or a leading U+FEFF.
ReEmbed ==
    ( /\ Len(embedded) = 2
      /\ embedded[1][1] = embedded[2][1]
      /\ embedded[1][2] # embedded[2][2]
      /\ IsPng(original)
      /\ extractTextChunk(original, embedded[1][1]) = Null
      /\ embedded[1][1] # << >>
      /\ NoNul(embedded[1][1])
      /\ RoundTrips(embedded[1][1])
      /\ RoundTrips(embedded[1][2]) )
        => /\ Tiles(png, 8)
           /\ BothPresent(png, embedded[1][1], embedded[1][2], embedded[2][2])
           /\ extractTextChunk(png, embedded[1][1]) = String(embedded[1][2])

\* 'other' was embedded with the empty text and again with another text, and
\* extractTextChunk returns the empty text of the first embed.
ReEmbedWitness ==
    /\ IsPng(original)
    /\ extractTextChunk(original, other) = Null
    /\ embedded = << << other, empty >>, << other, wideText >> >>
    /\ call.fn = "extractTextChunk"
    /\ call.pngBytes = png
    /\ call.keyword = other
    /\ call.ret = String(<< >>)

\* C23: after any sequence of injectTextChunk calls on a valid PNG, the
\* chunks of the buffer are the chunks of the original other than IEND, then
\* the inserted chunks in the order of the calls, then IEND.
EmbedOrder ==
    IsPng(original)
        => LET old == Chunks(original)
               new == [i \in 1..Len(embedded) |-> chunkOf[embedded[i]]]
           IN  /\ Tiles(png, 8)
               /\ Chunks(png) = SubSeq(old, 1, Len(old) - 1) \o new \o << old[Len(old)] >>
               /\ old[Len(old)] = IENDChunk

\* Two different chunks were embedded in a PNG that has chunks of its own,
\* and the second one is the chunk right before IEND.
EmbedOrderWitness ==
    /\ IsPng(original)
    /\ Len(Chunks(original)) = 3
    /\ embedded = << << other, wideText >>, << whispers, nameX >> >>
    /\ Chunks(png)[3] = chunkOf[<< other, wideText >>]
    /\ Chunks(png)[4] = chunkOf[<< whispers, nameX >>]
    /\ Chunks(png)[5] = IENDChunk

\* C24: the loops of findChunkPos and extractTextChunk terminate: the scan
\* offset grows by at least 12 in every pass that does not end the loop, a
\* pass at an offset at or past the buffer length ends it, and every scan
\* ends, with the outcome of the function.
ScansTerminate ==
    /\ [][(call.pc = "loop" /\ call'.pc = "loop") => call'.off >= call.off + 12]_vars
    /\ [][(call.pc = "loop" /\ call.off >= Len(call.pngBytes)) => call'.pc = "done"]_vars
    /\ <>(call.pc = "done")
    /\ [](call.pc = "done"
            => call.ret = IF call.fn = "findChunkPos"
                            THEN findChunkPos(call.pngBytes, call.keyword)
                            ELSE extractTextChunk(call.pngBytes, call.keyword))

\* A scan met the declared length 0xFFFFFFFF, stepped past the end of the
\* buffer and ended with -1.
ScansTerminateWitness ==
    /\ call.fn = "findChunkPos"
    /\ call.pc = "done"
    /\ Len(call.pngBytes) >= 12
    /\ SubSeq(call.pngBytes, 9, 12) = << 255, 255, 255, 255 >>
    /\ call.off > Len(call.pngBytes)
    /\ call.ret = Number(-1)

\* Every byte is below 0x80.
IsAscii(bytes) == \A i \in 1..Len(bytes) : bytes[i] < 128

\* C25 as stated: a string extractTextChunk(b, k) returns is the text of a
\* tEXt chunk whose bytes before the first zero byte are UTF8(k) exactly.
KeywordBytesExact ==
    ( /\ call.fn = "extractTextChunk"
      /\ Tiles(call.pngBytes, 8)
      /\ call.ret.kind = "string" )
        => LET b == call.pngBytes
               offs == ChunkOffsets(b, 8)
           IN  \E i \in 1..Len(offs) :
                   /\ TypeAt(b, offs[i]) = tEXt
                   /\ FirstZeroIndex(DataAt(b, offs[i])) > 0
                   /\ KeywordBytesAt(b, offs[i]) = encode(call.keyword)
                   /\ call.ret = String(TextAt(b, offs[i]))

\* C25 as amended: it is the text of a tEXt chunk whose bytes before the
\* first zero byte decode to k; when those bytes are ASCII they are UTF8(k)
\* exactly, neither a proper prefix nor a proper extension of it.
KeywordMatch ==
    ( /\ call.fn = "extractTextChunk"
      /\ Tiles(call.pngBytes, 8)
      /\ call.ret.kind = "string" )
        => /\ Matches(call.pngBytes, call.keyword) # {}
           /\ LET b == call.pngBytes
                  o == ChunkOffsets(b, 8)[Min(Matches(b, call.keyword))]
                  kb == KeywordBytesAt(b, o)
              IN  /\ call.ret = String(TextAt(b, o))
                  /\ decode(kb) = call.keyword
                  /\ IsAscii(kb) => kb = encode(call.keyword)

\* The chunk whose keyword bytes are a byte order mark and 'other' was
\* returned for 'other'.
KeywordMatchWitness ==
    /\ call.fn = "extractTextChunk"
    /\ call.pngBytes = Signature \o cBomKey \o cIHDR \o IENDChunk
    /\ call.keyword = other
    /\ KeywordBytesAt(call.pngBytes, 8) # encode(other)
    /\ call.ret = String(<< 98 >>)

\* C26: when no matching chunk lies at or before the first IEND chunk,
\* extractTextChunk(b, k) is null, and a string it returns is the text of a
\* matching chunk that is not after IEND.
IendBoundsExtraction ==
    (call.fn = "extractTextChunk" /\ Tiles(call.pngBytes, 8))
        => LET b == call.pngBytes
               offs == ChunkOffsets(b, 8)
               before == { i \in 1..Len(offs) :
                             \A j \in 1..Len(offs) : TypeAt(b, offs[j]) = IEND => i < j }
               hit(i) == /\ TypeAt(b, offs[i]) = tEXt
                         /\ FirstZeroIndex(DataAt(b, offs[i])) > 1
                         /\ decode(KeywordBytesAt(b, offs[i])) = call.keyword
           IN  /\ (\A i \in before : ~hit(i)) => call.ret = Null
               /\ call.ret.kind = "string"
                    => \E i \in before : hit(i) /\ call.ret = String(TextAt(b, offs[i]))

\* The chunk whispers\0old lies after IEND and extractTextChunk with
\* 'whispers' is null.
IendBoundsExtractionWitness ==
    /\ call.fn = "extractTextChunk"
    /\ call.pngBytes = Signature \o IENDChunk \o cOld
    /\ call.keyword = whispers
    /\ decode(KeywordBytesAt(call.pngBytes, 20)) = whispers
    /\ call.ret = Null

\* The offsets the scan of extractTextChunk(b, k) visits with a whole chunk
\* header left, from o on: it stops after a match and after IEND.
RECURSIVE Visited(_, _, _)
Visited(b, k, o) ==
    IF Len(b) - o < 8 THEN << >>
    ELSE LET data == SubSeq(b, o + 9, IF o + 8 + getUint32(b, o) > Len(b) THEN Len(b)
                                      ELSE o + 8 + getUint32(b, o))
             z == FirstZeroIndex(data)
         IN  IF TypeAt(b, o) = IEND
                  \/ (TypeAt(b, o) = tEXt /\ z > 1 /\ decode(SubSeq(data, 1, z - 1)) = k)
               THEN << o >>
               ELSE << o >> \o Visited(b, k, o + 12 + getUint32(b, o))

\* C27: when the scan of extractTextChunk(b, k) comes to a tEXt chunk at
\* offset o with o + 8 + length beyond the buffer, the chunk data it uses are
\* the bytes from o + 8 to the end of the buffer: the text after their first
\* zero byte is returned when the keyword matches, and null otherwise; and
\* no call reads a byte index at or beyond the buffer length.
NoReadOutside ==
    call.fn = "extractTextChunk"
        => LET b == call.pngBytes
               offs == Visited(b, call.keyword, 8)
           IN  /\ \A x \in extractTextChunkReads(b, call.keyword, 8) :
                      x >= 0 /\ x < Len(b)
               /\ \A i \in 1..Len(offs) :
                      ( /\ TypeAt(b, offs[i]) = tEXt
                        /\ offs[i] + 8 + getUint32(b, offs[i]) > Len(b) )
                          => LET data == SubSeq(b, offs[i] + 9, Len(b))
                                 z == FirstZeroIndex(data)
                             IN  call.ret
                                   = IF z > 1 /\ decode(SubSeq(data, 1, z - 1)) = call.keyword
                                       THEN String(decode(SubSeq(data, z + 1, Len(data))))
                                       ELSE Null

\* A tEXt chunk at offset 8 declares 99 data bytes in a 26-byte buffer; its
\* keyword is not the one asked for and the scan ends with null.
NoReadOutsideWitness ==
    /\ call.fn = "extractTextChunk"
    /\ call.pngBytes = Signature \o << 0, 0, 0, 99 >> \o tEXt \o whispers \o << 0, 120 >>
    /\ call.keyword = other
    /\ 8 + 8 + getUint32(call.pngBytes, 8) > Len(call.pngBytes)
    /\ 24 \in extractTextChunkReads(call.pngBytes, call.keyword, 8)
    /\ call.ret = Null


(***************************************************************************)
(* C28: the codec of src/unnamed/part_000 and the codec of src/index.js    *)
(* give the same outcome on every call: injectTextChunk the same bytes     *)
(* (in the fallback too) or both throw, extractTextChunk the same string   *)
(* or null, findChunkPos / findChunkPosition the same offset.              *)
(***************************************************************************)
CopiesAgree ==
    /\ call.fn = "injectTextChunk" =>
         call.ret = part000_injectTextChunk(call.pngBytes, call.keyword, call.text)
    /\ call.fn = "extractTextChunk" =>
         call.ret = part000_extractTextChunk(call.pngBytes, call.keyword)
    /\ call.fn = "findChunkPos" =>
         LET r == findChunkPosition(call.pngBytes, call.keyword)
         IN  call.ret = [kind |-> r.kind, val |-> << r.val >>]

\* An injection that took the fallback (no IEND found) and returned bytes.
CopiesAgreeWitness ==
    /\ Injected
    /\ findChunkPosition(call.pngBytes, IEND) = Number(-1)
    /\ Len(call.pngBytes) > 12
    /\ call.ret = part000_injectTextChunk(call.pngBytes, call.keyword, call.text)


(***************************************************************************)
(* C29: the signature is not inspected.  For a buffer and its twin, which  *)
(* differs from it in each of its first 8 bytes and nowhere else,          *)
(* findChunkPos and extractTextChunk return the same result, and the       *)
(* outputs of injectTextChunk differ only in their first 8 bytes.          *)
(***************************************************************************)
Twin(b) ==
    [i \in 1..Len(b) |-> IF i <= 8 THEN 255 - b[i] ELSE b[i]]

DifferOnlyInSignature(x, y) ==
    /\ Len(x) = Len(y)
    /\ \A i \in 1..Len(x) : i > 8 => x[i] = y[i]

SignatureNotInspected ==
    LET twin == Twin(call.pngBytes)
    IN  /\ call.fn = "findChunkPos" =>
             LET r == findChunkPos(twin, call.keyword)
             IN  call.ret = [kind |-> r.kind, val |-> << r.val >>]
        /\ call.fn = "extractTextChunk" =>
             call.ret = extractTextChunk(twin, call.keyword)
        /\ call.fn = "injectTextChunk" =>
             LET r == injectTextChunk(twin, call.keyword, call.text)
             IN  /\ r.kind = call.ret.kind
                 /\ r.kind = "bytes" => DifferOnlyInSignature(call.ret.val, r.val)


\* C29, as the code has it: findChunkPos and extractTextChunk return the same
\* result on a buffer and its twin, injectTextChunk throws on both or on
\* neither, and its two outputs differ only in the bytes copied from the first
\* 8 input bytes.  Those are the first 8 output bytes when the chunk goes in
\* at position 8 or later (IEND found, or a buffer of 20 bytes or more); in
\* the fallback on a shorter buffer the position, length - 12, is inside the
\* first 8 bytes and the bytes from there on are moved behind the chunk.
SignatureOnlyCopied ==
    LET twin == Twin(call.pngBytes)
    IN  /\ call.fn = "findChunkPos" =>
             LET r == findChunkPos(twin, call.keyword)
             IN  call.ret = [kind |-> r.kind, val |-> << r.val >>]
        /\ call.fn = "extractTextChunk" =>
             call.ret = extractTextChunk(twin, call.keyword)
        /\ call.fn = "injectTextChunk" =>
             LET r == injectTextChunk(twin, call.keyword, call.text)
                 f == findChunkPos(call.pngBytes, IEND)
                 n == Len(call.pngBytes)
                 pos == IF f.val # -1 THEN f.val ELSE n - 12
                 k == Len(call.ret.val) - n
                 FromInput(j) == IF j <= pos THEN j
                                 ELSE IF j > pos + k THEN j - k
                                 ELSE 0
             IN  /\ r.kind = call.ret.kind
                 /\ r.kind = "bytes" =>
                      /\ Len(r.val) = Len(call.ret.val)
                      /\ \A j \in 1..Len(r.val) :
                           FromInput(j) \notin 1..8 => r.val[j] = call.ret.val[j]
                      /\ pos >= 8 => DifferOnlyInSignature(call.ret.val, r.val)

\* An injection before a found IEND whose output differs from the twin's in
\* each of the first 8 bytes.
SignatureOnlyCopiedWitness ==
    /\ Injected
    /\ findChunkPos(call.pngBytes, IEND).val >= 8
    /\ LET r == injectTextChunk(Twin(call.pngBytes), call.keyword, call.text)
       IN  /\ r.kind = "bytes"
           /\ \A i \in 1..8 : r.val[i] # call.ret.val[i]
           /\ DifferOnlyInSignature(call.ret.val, r.val)


(***************************************************************************)
(* C30: absent is distinct from empty.  On a buffer whose chunks tile,     *)
(* extractTextChunk returns null only when no tEXt chunk at or before the  *)
(* first IEND matches the keyword, and when the first matching chunk has   *)
(* no byte after its zero separator it returns the empty string, which is  *)
(* not null.                                                               *)
(***************************************************************************)
AbsentIsNotEmpty ==
    (call.fn = "extractTextChunk" /\ Tiles(call.pngBytes, 8)) =>
        /\ call.ret = Null => Matches(call.pngBytes, call.keyword) = {}
        /\ Matches(call.pngBytes, call.keyword) # {} => call.ret.kind = "string"
        /\ ( /\ Matches(call.pngBytes, call.keyword) # {}
             /\ MatchedTextBytes(call.pngBytes, call.keyword) = << >> )
             => (call.ret = String(<< >>) /\ call.ret # Null)

\* An extraction whose first matching chunk ends with the zero separator.
AbsentIsNotEmptyWitness ==
    /\ call.fn = "extractTextChunk"
    /\ Tiles(call.pngBytes, 8)
    /\ Matches(call.pngBytes, call.keyword) # {}
    /\ MatchedTextBytes(call.pngBytes, call.keyword) = << >>
    /\ call.ret = String(<< >>)

====
